---- MODULE Spec2Model ----
(***************************************************************************)
(* Model of the token-refresh coordinator of @jjuidev/bridge               *)
(* (class TokenManager, which extends EventEmitter).                       *)
(*                                                                         *)
(* JavaScript runs one synchronous segment at a time, so every action      *)
(* below is one synchronous segment of the program: a call up to its       *)
(* first suspension, the settlement of the external refresh operation,     *)
(* the continuation of the refresh after its await, the resumption of a    *)
(* suspended caller.                                                       *)
(***************************************************************************)
EXTENDS Integers, Sequences, FiniteSets, TLC

\* ---------------------------------------------------------------- bounds
MaxCallers == 2          \* calls made to the TokenManager in one behaviour
MaxWrappers == 1         \* calls of once() on the standalone bus
MaxOnce == 2             \* calls of once() on the bus with one event name
MaxInvocations == 3      \* handler calls followed within one publish

\* ------------------------------------------------------- program constants
DefaultExpiryThreshold == 60000   \* options.expiryThreshold ?? 60_000 (ms)
LoginMatchEnd == 11               \* the length of the match of /\/auth\/login/
MsPerSecond == 1000               \* decoded.exp * 1_000

\* ------------------------------------------------------------ the values
None == "none"                    \* null / undefined / '' (falsy)
Unset == "unset"                  \* an option that is not supplied

Modes == {"default", "override"}

EventNames ==
  {"token:invalid", "refreshToken:start", "refreshToken:success",
   "refreshToken:error", "refreshToken:expired"}

\* jwtDecode(token) for the tokens of the model: ok = the token decodes,
\* hasExp = the payload carries an exp claim, exp = the claim (seconds).
\* "X" is not decodable, "E" decodes to a payload without an exp claim,
\* "Z" to a payload whose exp claim is 0.
Claims(hasExp, exp) == [ok |-> TRUE, hasExp |-> hasExp, exp |-> exp]
jwtDecode(token) ==
  CASE token = "A1" -> Claims(TRUE, 100)
    [] token = "R1" -> Claims(TRUE, 170)
    [] token = "A2" -> Claims(TRUE, 400)
    [] token = "R2" -> Claims(TRUE, 400)
    [] token = "E"  -> Claims(FALSE, 0)
    [] token = "Z"  -> Claims(TRUE, 0)
    [] OTHER -> [ok |-> FALSE, hasExp |-> FALSE, exp |-> 0]

Callers == 1..MaxCallers

VARIABLES
  store,          \* localStorage: the two token slots and one foreign entry
  now,            \* Date.now(), ms
  options,        \* TokenManagerOptions: which lifecycle callbacks are supplied
  registered,     \* the handlers installed by setupEventListener are still on
  isRefreshing,   \* TokenManager.isRefreshing
  refreshPromise, \* TokenManager.refreshPromise: 0 = null, k = promise of attempt k
  attempts,       \* the refresh attempts started so far, in order
  published,      \* history: every emit, in order
  callers,        \* the callers of getToken / refreshTokenIfNecessary
  turn,           \* history: number of the synchronous turn of the last call
  inTurn,         \* history: the last step was a call (the turn continues)
  events,         \* EventEmitter.events of a bus used on its own: name -> Set
  wrappers,       \* how many onceHandler closures once() has created
  runs,           \* history: how often the handler of each onceHandler has run
  lastCall,       \* history: the last call made to that bus and what it did
  ignoreTokenPatterns, \* HttpClientOptions.ignoreTokenPatterns: the RegExp objects
  requests        \* the requests that passed through the HttpClient interceptor

\* The state of the standalone bus and of the HttpClient.
aux == <<events, wrappers, runs, lastCall, ignoreTokenPatterns, requests>>

vars == <<store, now, options, registered, isRefreshing, refreshPromise,
          attempts, published, callers, turn, inTurn, events, wrappers,
          runs, lastCall, ignoreTokenPatterns, requests>>

\* The part of the state a synchronous segment of the TokenManager works on.
Cur ==
  [store |-> store, published |-> published, isRefreshing |-> isRefreshing,
   refreshPromise |-> refreshPromise, attempts |-> attempts]

\* ----------------------------------------------------- Lifecycle reactions
\* Mutant: only the access token is removed.
localStorageClear_KeepsRefresh(st) == [st EXCEPT !.access = None]

\* localStorage.clear()
localStorageClear(st) == [access |-> None, refresh |-> None, other |-> FALSE]

\* Mutant: only the access token is persisted.
localStorageSetToken_AccessOnly(st, tok) ==
  [st EXCEPT !.access = tok.accessToken]

\* Mutant: only the refresh token is persisted.
localStorageSetToken_RefreshOnly(st, tok) ==
  [st EXCEPT !.refresh = tok.refreshToken]

\* Mutant: the two halves are written to each other's slot.
localStorageSetToken_Swapped(st, tok) ==
  [st EXCEPT !.access = tok.refreshToken, !.refresh = tok.accessToken]

\* localStorage.setItem(tokenKey.accessToken, ..); setItem(tokenKey.refreshToken, ..)
localStorageSetToken(st, tok) ==
  [st EXCEPT !.access = tok.accessToken, !.refresh = tok.refreshToken]

\* The default branch of the five handlers of setupEventListener.
DefaultReaction(ev, st, payload) ==
  CASE ev = "token:invalid"        -> localStorageClear(st)
    [] ev = "refreshToken:start"   -> st
    [] ev = "refreshToken:success" -> localStorageSetToken(st, payload)
    [] ev = "refreshToken:error"   -> localStorageClear(st)
    [] ev = "refreshToken:expired" -> localStorageClear(st)

\* Mutant: the default branch runs whether or not a callback is supplied.
HandlerMode_AlwaysDefault(ev) == "default"

\* Which branch of handleXxx runs: the callback of the options, else the default.
HandlerMode(ev) ==
  CASE ev = "token:invalid"        -> options.onTokenInvalid
    [] ev = "refreshToken:start"   -> options.onRefreshTokenStart
    [] ev = "refreshToken:success" -> options.onRefreshTokenSuccess
    [] ev = "refreshToken:error"   -> options.onRefreshTokenError
    [] ev = "refreshToken:expired" -> options.onRefreshTokenExpired

\* EventEmitter.emit(ev, payload) on the handlers of setupEventListener.
\* A callback supplied in the options is user code: it returns or raises
\* (raises = the choice of the step); emit does not catch.
\* Result: the state after the emit and whether a handler raised.
emit(s, ev, att, payload, raises) ==
  LET ran == IF ~registered THEN "none"
             ELSE IF HandlerMode(ev) = "default" THEN "default"
             ELSE IF raises THEN "raised" ELSE "override"
      st == IF ran = "default" THEN DefaultReaction(ev, s.store, payload)
            ELSE s.store
  IN [s |-> [s EXCEPT !.store = st,
                      !.published = Append(@, [ev |-> ev, att |-> att, ran |-> ran])],
      raised |-> (ran = "raised")]

\* ------------------------------------------------------------ Token Accessor
\* Results of the accessors: the state after the call, ok = returned normally,
\* val = the value returned, err = the error thrown.
Ret(s, val) == [s |-> s, ok |-> TRUE, val |-> val, err |-> None]
Throw(s, err) == [s |-> s, ok |-> FALSE, val |-> None, err |-> err]

\* emit(ev, error); throw error -- a raising handler replaces the error.
EmitAndThrow(s, ev, att, err, raises) ==
  LET e == emit(s, ev, att, None, raises)
  IN Throw(e.s, IF e.raised THEN "HandlerError" ELSE err)

\* options.expiryThreshold is optional: absent, or a number of milliseconds.
NotSupplied == << >>
Supplied(d) == <<d>>

\* Mutant: a falsy threshold counts as absent, if (options.expiryThreshold).
expiryThreshold_Falsy ==
  IF options.expiryThreshold = NotSupplied \/ options.expiryThreshold[1] = 0
    THEN DefaultExpiryThreshold
    ELSE options.expiryThreshold[1]

\* this.expiryThreshold, assigned once by the constructor.
expiryThreshold ==
  IF options.expiryThreshold = NotSupplied
    THEN DefaultExpiryThreshold
    ELSE options.expiryThreshold[1]

\* Mutant: the comparison of the expiry with the clock is inverted.
isTokenExpired_Inverted(s, token, att, raises) ==
  LET decoded == jwtDecode(token)
  IN IF ~decoded.ok
       THEN EmitAndThrow(s, "token:invalid", att, "DecodeError", raises)
     ELSE IF ~decoded.hasExp \/ decoded.exp = 0
       THEN Ret(s, FALSE)
     ELSE Ret(s, decoded.exp * MsPerSecond > now + expiryThreshold)

\* Mutant: a token that does not decode is judged not expired.
isTokenExpired_DecodeLenient(s, token, att, raises) ==
  LET decoded == jwtDecode(token)
  IN IF ~decoded.ok \/ ~decoded.hasExp \/ decoded.exp = 0
       THEN Ret(s, FALSE)
     ELSE Ret(s, decoded.exp * MsPerSecond < now + expiryThreshold)

\* Mutant: a payload without an exp claim is judged expired.
isTokenExpired_NoExpExpired(s, token, att, raises) ==
  LET decoded == jwtDecode(token)
  IN IF ~decoded.ok
       THEN EmitAndThrow(s, "token:invalid", att, "DecodeError", raises)
     ELSE IF ~decoded.hasExp \/ decoded.exp = 0
       THEN Ret(s, TRUE)
     ELSE Ret(s, decoded.exp * MsPerSecond < now + expiryThreshold)

\* TokenManager.isTokenExpired(token), the default predicate.
isTokenExpired(s, token, att, raises) ==
  LET decoded == jwtDecode(token)
  IN IF ~decoded.ok
       THEN EmitAndThrow(s, "token:invalid", att, "DecodeError", raises)
     ELSE IF ~decoded.hasExp \/ decoded.exp = 0
       THEN Ret(s, FALSE)
     ELSE Ret(s, decoded.exp * MsPerSecond < now + expiryThreshold)

\* TokenManager.getAccessToken(); a getter supplied in the options is user
\* code, modelled by the value it returns.
getAccessToken(s, att, raises) ==
  IF options.getAccessToken # Unset
    THEN Ret(s, options.getAccessToken)
  ELSE IF s.store.access = None
    THEN EmitAndThrow(s, "token:invalid", att, "NoAccessToken", raises)
    ELSE Ret(s, s.store.access)

\* TokenManager.getRefreshToken()
getRefreshToken(s, att, raises) ==
  IF options.getRefreshToken # Unset
    THEN Ret(s, options.getRefreshToken)
  ELSE IF s.store.refresh = None
    THEN EmitAndThrow(s, "token:invalid", att, "NoRefreshToken", raises)
    ELSE Ret(s, s.store.refresh)

\* TokenManager.isAccessTokenExpired()
\* A predicate supplied in the options is user code, modelled by its verdict.
isAccessTokenExpired(s, att, raises) ==
  LET t == getAccessToken(s, att, raises)
  IN IF ~t.ok THEN t
     ELSE IF options.isAccessTokenExpired # Unset
       THEN Ret(t.s, options.isAccessTokenExpired = "expired")
     ELSE isTokenExpired(t.s, t.val, att, raises)

\* TokenManager.isRefreshTokenExpired()
isRefreshTokenExpired(s, att, raises) ==
  LET t == getRefreshToken(s, att, raises)
  IN IF ~t.ok THEN t
     ELSE IF options.isRefreshTokenExpired # Unset
       THEN Ret(t.s, options.isRefreshTokenExpired = "expired")
     ELSE isTokenExpired(t.s, t.val, att, raises)

\* ------------------------------------------------------- Refresh Coordinator
NoToken == [accessToken |-> None, refreshToken |-> None]

\* A refresh attempt: exec = the executeRefreshToken invocation ("none" not
\* invoked, "inflight", "resolved", "rejected"), arg = the currentToken passed,
\* value = what it resolved with, promise = the promise of the async closure
\* ("none" not created, "pending", "fulfilled", "rejected"), err = its reason.
\* History: invokedAt / settledAt = how many events had been published when
\* executeRefreshToken was invoked / when its promise settled.
NewAttempt ==
  [exec |-> "none", arg |-> NoToken, value |-> NoToken,
   promise |-> "none", err |-> None, invokedAt |-> 0, settledAt |-> 0]

\* Mutant: the guard on the in-progress flag is missing.
IsJoining_Never(s) == FALSE

\* if (this.isRefreshing) return this.refreshPromise!
IsJoining(s) == s.isRefreshing

\* Mutant: the finally block forgets the in-progress flag.
Finally_KeepsFlag(s) == [s EXCEPT !.refreshPromise = 0]

\* finally { this.isRefreshing = false; this.refreshPromise = null }
Finally(s) == [s EXCEPT !.isRefreshing = FALSE, !.refreshPromise = 0]

\* Mutant: the catch block publishes the event but does not rethrow.
CatchAndFinally_Swallow(s, k, err, raises) ==
  LET e == emit(s, "refreshToken:error", k, None, raises)
  IN Finally([e.s EXCEPT !.attempts[k].promise = "fulfilled"])

\* catch (error) { this.emit('refreshToken:error', error); throw error }
\* followed by the finally block: the promise of attempt k rejects.
CatchAndFinally(s, k, err, raises) ==
  LET e == emit(s, "refreshToken:error", k, None, raises)
      thrown == IF e.raised THEN "HandlerError" ELSE err
  IN Finally([e.s EXCEPT !.attempts[k].promise = "rejected",
                         !.attempts[k].err = thrown])

\* The async closure of attempt k up to its await: it reads the current pair
\* and invokes executeRefreshToken; a throw before the await is caught by the
\* closure's own catch/finally within the same synchronous segment.
StartRefresh(s, k, ch) ==
  LET a == getAccessToken(s, k, ch.r2)
      r == IF a.ok THEN getRefreshToken(a.s, k, ch.r2) ELSE a
  IN IF ~r.ok
       THEN CatchAndFinally(r.s, k, r.err, ch.r3)
       ELSE [r.s EXCEPT !.attempts[k].exec = "inflight",
                        !.attempts[k].arg = [accessToken |-> a.val,
                                             refreshToken |-> r.val],
                        !.attempts[k].promise = "pending",
                        !.attempts[k].invokedAt = Len(r.s.published)]

\* Mutant: refreshToken:start is published after the closure has started.
StartBranch_LateStart(s, ch) ==
  LET k == Len(s.attempts) + 1
      s1 == [s EXCEPT !.isRefreshing = TRUE, !.attempts = Append(@, NewAttempt)]
      s2 == [StartRefresh(s1, k, ch) EXCEPT !.refreshPromise = k]
  IN [s |-> emit(s2, "refreshToken:start", k, None, FALSE).s,
      kind |-> "started", p |-> k, err |-> None, att |-> k,
      expired |-> FALSE, open |-> 0]

\* The branch of refreshTokenIfNecessary that opens a Refresh Session.
StartBranch(s, ch) ==
  LET k == Len(s.attempts) + 1
      s1 == [s EXCEPT !.isRefreshing = TRUE, !.attempts = Append(@, NewAttempt)]
      e == emit(s1, "refreshToken:start", k, None, ch.r1)
  IN IF e.raised
       THEN [s |-> e.s, kind |-> "thrown", p |-> 0, err |-> "HandlerError",
             att |-> k, expired |-> FALSE, open |-> 0]
       ELSE [s |-> [StartRefresh(e.s, k, ch) EXCEPT !.refreshPromise = k],
             kind |-> "started", p |-> k, err |-> None, att |-> k,
             expired |-> FALSE, open |-> 0]

\* Mutant: the expired branch publishes the event but does not throw.
ExpiredBranch_NoThrow(s, ch) ==
  StartBranch(emit(s, "refreshToken:expired", 0, None, ch.r1).s, ch)

\* The branch of refreshTokenIfNecessary for an expired refresh token.
ExpiredBranch(s, ch) ==
  LET t == EmitAndThrow(s, "refreshToken:expired", 0, "RefreshTokenExpired", ch.r1)
  IN [s |-> t.s, kind |-> "thrown", p |-> 0, err |-> t.err, att |-> 0,
      expired |-> TRUE, open |-> 0]

\* TokenManager.refreshTokenIfNecessary(), its synchronous part.
\* kind: "joined" (returns refreshPromise, p = 0 when it is null), "thrown"
\* (the returned promise is already rejected with err), "started" (returns
\* the promise p of the attempt att it opened); open = the attempt whose
\* session a joining call found open.
refreshTokenIfNecessary(s, ch) ==
  IF IsJoining(s)
    THEN [s |-> s, kind |-> "joined", p |-> s.refreshPromise, err |-> None,
          att |-> 0, expired |-> FALSE, open |-> Len(s.attempts)]
  ELSE LET x == isRefreshTokenExpired(s, 0, ch.r1)
       IN IF ~x.ok
            THEN [s |-> x.s, kind |-> "thrown", p |-> 0, err |-> x.err,
                  att |-> 0, expired |-> FALSE, open |-> 0]
          ELSE IF x.val THEN ExpiredBranch(x.s, ch)
          ELSE StartBranch(x.s, ch)

\* Mutant: the resolved value is not validated (as in the earlier variant of
\* the class, which accepts any resolved value).
ResumeRefresh_NoValidation(s, k, ch) ==
  IF s.attempts[k].exec = "rejected"
    THEN CatchAndFinally(s, k, "ExecRejected", ch.r1)
    ELSE LET e == emit(s, "refreshToken:success", k, s.attempts[k].value, ch.r1)
         IN IF e.raised
              THEN CatchAndFinally(e.s, k, "HandlerError", ch.r2)
              ELSE Finally([e.s EXCEPT !.attempts[k].promise = "fulfilled"])

\* The closure of attempt k after `await executeRefreshToken(..)`.
ResumeRefresh(s, k, ch) ==
  LET a == s.attempts[k]
      newToken == a.value
  IN IF a.exec = "rejected"
       THEN CatchAndFinally(s, k, "ExecRejected", ch.r1)
     ELSE IF newToken.accessToken = None \/ newToken.refreshToken = None
       THEN LET t == EmitAndThrow(s, "refreshToken:error", k,
                                  "InvalidTokenReturned", ch.r1)
            IN CatchAndFinally(t.s, k, t.err, ch.r2)
     ELSE LET e == emit(s, "refreshToken:success", k, newToken, ch.r1)
          IN IF e.raised
               THEN CatchAndFinally(e.s, k, "HandlerError", ch.r2)
               ELSE Finally([e.s EXCEPT !.attempts[k].promise = "fulfilled"])

\* ------------------------------------------------------------------ callers
\* pc: "idle" (has not called), "awaitRefresh" (suspended on the promise
\* returned by refreshTokenIfNecessary), "awaitGet" (suspended inside
\* getToken), "done" (its promise has settled: st, val).
\* History of the call: how it went through the coordinator ("joined",
\* "thrown", "started"; "valid"/"invalid" for a getToken that did not reach
\* it), att = the attempt it opened, src = the attempt whose promise gave its
\* outcome, open = the attempt whose session it joined, expired = it judged
\* the refresh token expired, judged = the access token getToken judged
\* expired, turn = the synchronous turn of the call.
NoCaller ==
  [pc |-> "idle", kind |-> "none", waitOn |-> 0, st |-> "none", val |-> None,
   src |-> 0, how |-> "none", att |-> 0, open |-> 0, expired |-> FALSE,
   judged |-> None, turn |-> 0]

\* The choices of user code within one synchronous segment: whether the
\* lifecycle callback raises at the first, second, third emit that reaches one.
Choices == [r1 : BOOLEAN, r2 : BOOLEAN, r3 : BOOLEAN]

SetCur(s) ==
  /\ store' = s.store
  /\ published' = s.published
  /\ isRefreshing' = s.isRefreshing
  /\ refreshPromise' = s.refreshPromise
  /\ attempts' = s.attempts

\* Callers are numbered in the order of their calls.
IsNext(c) ==
  /\ callers[c].pc = "idle"
  /\ \A d \in Callers : d < c => callers[d].pc # "idle"

NewTurn == IF inTurn THEN turn ELSE turn + 1

\* The caller's record after the synchronous part of refreshTokenIfNecessary.
AfterRefreshCall(kind, r, judged) ==
  [pc |-> IF r.kind = "thrown" THEN "done"
          ELSE IF kind = "refresh" THEN "awaitRefresh" ELSE "awaitGet",
   kind |-> kind, waitOn |-> r.p,
   st |-> IF r.kind = "thrown" THEN "rejected" ELSE "none",
   val |-> r.err, src |-> 0, how |-> r.kind, att |-> r.att, open |-> r.open,
   expired |-> r.expired, judged |-> judged, turn |-> NewTurn]

\* A caller invokes refreshTokenIfNecessary() directly.
CallRefresh(c) ==
  /\ IsNext(c)
  /\ \E ch \in Choices :
       LET r == refreshTokenIfNecessary(Cur, ch)
       IN /\ SetCur(r.s)
          /\ callers' = [callers EXCEPT ![c] = AfterRefreshCall("refresh", r, None)]
  /\ turn' = NewTurn /\ inTurn' = TRUE
  /\ UNCHANGED <<now, options, registered>>
  /\ UNCHANGED aux

\* TokenManager.getToken(), its synchronous part.
GetTokenSegment(c) ==
  /\ IsNext(c)
  /\ \E ch \in Choices :
       LET x == isAccessTokenExpired(Cur, 0, ch.r1)
       IN IF ~x.ok
            THEN /\ SetCur(x.s)
                 /\ callers' = [callers EXCEPT ![c] =
                      [NoCaller EXCEPT !.pc = "done", !.kind = "getToken",
                                       !.st = "rejected", !.val = x.err,
                                       !.how = "invalid", !.turn = NewTurn]]
          ELSE IF x.val
            THEN LET r == refreshTokenIfNecessary(x.s, ch)
                 IN /\ SetCur(r.s)
                    /\ callers' = [callers EXCEPT ![c] =
                         AfterRefreshCall("getToken", r, x.s.store.access)]
          ELSE LET g == getAccessToken(x.s, 0, ch.r1)
               IN /\ SetCur(g.s)
                  /\ callers' = [callers EXCEPT ![c] =
                       [NoCaller EXCEPT !.pc = "done", !.kind = "getToken",
                                        !.st = IF g.ok THEN "fulfilled" ELSE "rejected",
                                        !.val = IF g.ok THEN g.val ELSE g.err,
                                        !.how = "valid", !.turn = NewTurn]]
  /\ turn' = NewTurn /\ inTurn' = TRUE
  /\ UNCHANGED <<now, options, registered>>

\* A caller invokes getToken().
CallGetToken(c) ==
  /\ GetTokenSegment(c)
  /\ UNCHANGED aux

\* The record of a caller whose direct, synchronous call of an accessor
\* returned or threw.
AfterAccessorCall(kind, g) ==
  [NoCaller EXCEPT !.pc = "done", !.kind = kind,
                   !.st = IF g.ok THEN "fulfilled" ELSE "rejected",
                   !.val = IF g.ok THEN g.val ELSE g.err,
                   !.how = "direct", !.turn = NewTurn]

\* A caller invokes the public getAccessToken() directly.
CallGetAccessToken(c) ==
  /\ IsNext(c)
  /\ \E raises \in BOOLEAN :
       LET g == getAccessToken(Cur, 0, raises)
       IN /\ SetCur(g.s)
          /\ callers' = [callers EXCEPT ![c] = AfterAccessorCall("getAccessToken", g)]
  /\ turn' = NewTurn /\ inTurn' = TRUE
  /\ UNCHANGED <<now, options, registered>>
  /\ UNCHANGED aux

\* A caller invokes the public getRefreshToken() directly.
CallGetRefreshToken(c) ==
  /\ IsNext(c)
  /\ \E raises \in BOOLEAN :
       LET g == getRefreshToken(Cur, 0, raises)
       IN /\ SetCur(g.s)
          /\ callers' = [callers EXCEPT ![c] = AfterAccessorCall("getRefreshToken", g)]
  /\ turn' = NewTurn /\ inTurn' = TRUE
  /\ UNCHANGED <<now, options, registered>>
  /\ UNCHANGED aux

\* Mutant: only a fulfilled promise resumes the callers suspended on it.
Settled_OnlyFulfilled(p) ==
  IF p = 0 THEN TRUE ELSE attempts[p].promise = "fulfilled"

\* The promise a caller is suspended on has settled (null counts as settled).
Settled(p) ==
  IF p = 0 THEN TRUE ELSE attempts[p].promise \in {"fulfilled", "rejected"}

\* The promise returned by refreshTokenIfNecessary settles for its caller.
ObserveRefresh(c) ==
  /\ callers[c].pc = "awaitRefresh"
  /\ Settled(callers[c].waitOn)
  /\ LET p == callers[c].waitOn
         rej == p # 0 /\ attempts[p].promise = "rejected"
     IN callers' = [callers EXCEPT ![c].pc = "done",
                                   ![c].st = IF rej THEN "rejected" ELSE "fulfilled",
                                   ![c].val = IF rej THEN attempts[p].err ELSE None,
                                   ![c].src = p]
  /\ inTurn' = FALSE
  /\ UNCHANGED <<store, now, options, registered, isRefreshing, refreshPromise,
                 attempts, published, turn>>
  /\ UNCHANGED aux

\* getToken resumes after `await this.refreshTokenIfNecessary()`:
\* a rejection propagates, otherwise it returns this.getAccessToken().
ResumeGetToken(c) ==
  /\ callers[c].pc = "awaitGet"
  /\ Settled(callers[c].waitOn)
  /\ LET p == callers[c].waitOn
         rej == p # 0 /\ attempts[p].promise = "rejected"
     IN IF rej
          THEN /\ callers' = [callers EXCEPT ![c].pc = "done", ![c].st = "rejected",
                                              ![c].val = attempts[p].err, ![c].src = p]
               /\ UNCHANGED <<store, published>>
          ELSE \E raises \in BOOLEAN :
                 LET g == getAccessToken(Cur, 0, raises)
                 IN /\ store' = g.s.store
                    /\ published' = g.s.published
                    /\ callers' = [callers EXCEPT
                         ![c].pc = "done",
                         ![c].st = IF g.ok THEN "fulfilled" ELSE "rejected",
                         ![c].val = IF g.ok THEN g.val ELSE g.err,
                         ![c].src = p]
  /\ inTurn' = FALSE
  /\ UNCHANGED <<now, options, registered, isRefreshing, refreshPromise,
                 attempts, turn>>
  /\ UNCHANGED aux

\* ------------------------------------------------ the external refresh call
\* What executeRefreshToken can resolve with: a complete pair, or a pair that
\* omits one half.
ExecValues ==
  {[accessToken |-> "A2", refreshToken |-> "R2"],
   [accessToken |-> "A2", refreshToken |-> None],
   [accessToken |-> None, refreshToken |-> "R2"]}

\* The promise returned by executeRefreshToken resolves with v, and the async
\* closure of attempt k runs on after its await.
ExecResolves(k) ==
  /\ attempts[k].exec = "inflight"
  /\ \E v \in ExecValues, ch \in Choices :
       SetCur(ResumeRefresh(
         [Cur EXCEPT !.attempts[k].exec = "resolved", !.attempts[k].value = v,
                     !.attempts[k].settledAt = Len(published)],
         k, ch))
  /\ inTurn' = FALSE
  /\ UNCHANGED <<now, options, registered, callers, turn>>
  /\ UNCHANGED aux

\* The promise returned by executeRefreshToken rejects, and the async closure
\* of attempt k runs on in its catch block.
ExecRejects(k) ==
  /\ attempts[k].exec = "inflight"
  /\ \E ch \in Choices :
       SetCur(ResumeRefresh(
         [Cur EXCEPT !.attempts[k].exec = "rejected",
                     !.attempts[k].settledAt = Len(published)],
         k, ch))
  /\ inTurn' = FALSE
  /\ UNCHANGED <<now, options, registered, callers, turn>>
  /\ UNCHANGED aux

\* EventEmitter.destroy(), reached through HttpClient.destroy().
Destroy ==
  /\ registered
  /\ registered' = FALSE
  /\ inTurn' = FALSE
  /\ UNCHANGED <<store, now, options, isRefreshing, refreshPromise, attempts,
                 published, callers, turn>>
  /\ UNCHANGED aux

\* ------------------------------------------------------------ the HttpClient
\* A request that has not reached the interceptor. st: "none", "pending"
\* (suspended on getToken), "dispatched" (returned to axios), "rejected".
NoRequest == [url |-> None, st |-> "none", header |-> << >>, token |-> None]

\* The URLs requested: one that /\/auth\/login/ matches (at index 0), one
\* that it does not match.
Urls == {"/auth/login", "/users"}

\* A RegExp object built from the source /\/auth\/login/: global = it carries
\* the g flag, lastIndex = RegExp.lastIndex.
RegExpOf(global) == [global |-> global, lastIndex |-> 0]

\* RegExp.prototype.test(url): without the g flag the search starts at 0 and
\* lastIndex is left alone; with it the search starts at lastIndex, a match
\* moves lastIndex behind the match and a failure resets it to 0.
test(re, url) ==
  LET found == url = "/auth/login" /\ (~re.global \/ re.lastIndex = 0)
  IN [result |-> found,
      re |-> IF ~re.global THEN re
             ELSE [re EXCEPT !.lastIndex = IF found THEN LoginMatchEnd ELSE 0]]

\* ignoreTokenPatterns.some((pattern) => pattern.test(request.url ?? '')):
\* the patterns are tested in order up to the first that matches.
RECURSIVE some(_, _, _)
some(pats, i, url) ==
  IF i > Len(pats) THEN [result |-> FALSE, pats |-> pats]
  ELSE LET t == test(pats[i], url)
           pats1 == [pats EXCEPT ![i] = t.re]
       IN IF t.result THEN [result |-> TRUE, pats |-> pats1]
          ELSE some(pats1, i + 1, url)

\* request.headers['Authorization'] = `Bearer ${token}`; << >> is a request
\* without the header.
Bearer(token) == <<"Bearer", token>>

\* onRequest(request) up to its first suspension: a request whose URL an
\* ignore pattern matches is returned as it is, any other calls getToken().
Request(c, url) ==
  /\ IsNext(c)
  /\ LET m == some(ignoreTokenPatterns, 1, url)
     IN /\ ignoreTokenPatterns' = m.pats
        /\ IF m.result
             THEN /\ requests' = [requests EXCEPT ![c] =
                        [NoRequest EXCEPT !.url = url, !.st = "dispatched"]]
                  /\ callers' = [callers EXCEPT ![c] =
                        [NoCaller EXCEPT !.pc = "done", !.kind = "ignored",
                                         !.how = "ignored", !.turn = NewTurn]]
                  /\ turn' = NewTurn /\ inTurn' = TRUE
                  /\ UNCHANGED <<store, now, options, registered, isRefreshing,
                                 refreshPromise, attempts, published>>
             ELSE /\ requests' = [requests EXCEPT ![c] =
                        [NoRequest EXCEPT !.url = url, !.st = "pending"]]
                  /\ GetTokenSegment(c)
  /\ UNCHANGED <<events, wrappers, runs, lastCall>>

\* onRequest(request) after `await this.tokenManager.getToken()`: a rejection
\* rejects the request, otherwise the header is set if the token is truthy
\* and the request is returned to axios.
RequestResumes(c) ==
  /\ requests[c].st = "pending"
  /\ callers[c].pc = "done"
  /\ requests' = [requests EXCEPT ![c] =
       IF callers[c].st = "rejected"
         THEN [@ EXCEPT !.st = "rejected"]
         ELSE [@ EXCEPT !.st = "dispatched", !.token = callers[c].val,
                        !.header = IF callers[c].val # None
                                     THEN Bearer(callers[c].val) ELSE << >>]]
  /\ inTurn' = FALSE
  /\ UNCHANGED <<store, now, options, registered, isRefreshing, refreshPromise,
                 attempts, published, callers, turn, events, wrappers, runs,
                 lastCall, ignoreTokenPatterns>>

\* ------------------------------------------------------ the Notification Bus
\* EventEmitter used on its own. A Set of handlers is the sequence of its
\* elements in insertion order. An element is a handler h passed to on()
\* (w = 0) or the w-th onceHandler closure created by once(), which wraps h.
EventBusNames == {"e1", "e2"}
Handlers == {"h1", "h2"}

Plain(h) == [h |-> h, w |-> 0]

Has(set, x) == \E i \in 1..Len(set) : set[i] = x

\* Set.prototype.add / Set.prototype.delete
SetAdd(set, x) == IF Has(set, x) THEN set ELSE Append(set, x)
SetDelete(set, x) == SelectSeq(set, LAMBDA y : y # x)

\* Mutant: add() appends without looking for the element.
on_Appends(es, ev, x) == [es EXCEPT ![ev] = Append(@, x)]

\* EventEmitter.on(eventName, handler)
on(es, ev, x) == [es EXCEPT ![ev] = SetAdd(@, x)]

\* Mutant: off() removes every registration made for the handler, the
\* once-registrations included.
off_ByHandler(es, ev, x) ==
  [es EXCEPT ![ev] = SelectSeq(@, LAMBDA y : y.h # x.h)]

\* EventEmitter.off(eventName, handler)
off(es, ev, x) == [es EXCEPT ![ev] = SetDelete(@, x)]

\* Mutant: onceHandler calls the handler and unsubscribes afterwards, so a
\* handler that raises stays subscribed.
onceHandler_OffAfter(es, ev, x, raises) == IF raises THEN es ELSE off(es, ev, x)

\* The body of onceHandler up to the call of the wrapped handler:
\* this.off(eventName, onceHandler).
onceHandler(es, ev, x, raises) == off(es, ev, x)

\* Mutant: emit catches the error of a handler, calls the remaining handlers
\* and rethrows at the end.
RECURSIVE forEachHandler_GoesOn(_, _, _, _, _)
forEachHandler_GoesOn(es, ev, rest, ran, r) ==
  IF rest = << >> THEN [events |-> es, ran |-> ran, raised |-> r]
  ELSE LET x == Head(rest)
           es1 == IF x.w # 0 THEN onceHandler(es, ev, x, Len(ran) + 1 = r) ELSE es
       IN forEachHandler_GoesOn(es1, ev, Tail(rest), Append(ran, x), r)

\* this.getEvents(eventName).forEach((handler) => handler(...args)):
\* rest = the elements still to visit, ran = those called so far, r = the
\* position of the call that raises (0: none does). The error of a handler
\* ends the loop and leaves emit. Result: raised = the position of the call
\* whose error left emit, 0 when emit returned.
RECURSIVE forEachHandler(_, _, _, _, _)
forEachHandler(es, ev, rest, ran, r) ==
  IF rest = << >> THEN [events |-> es, ran |-> ran, raised |-> 0]
  ELSE LET x == Head(rest)
           raises == (Len(ran) + 1 = r)
           es1 == IF x.w # 0 THEN onceHandler(es, ev, x, raises) ELSE es
       IN IF raises
            THEN [events |-> es1, ran |-> Append(ran, x), raised |-> r]
            ELSE forEachHandler(es1, ev, Tail(rest), Append(ran, x), r)

\* Mutant: the loop removes an element and thereby skips the one after it.
RECURSIVE offAll_SkipsNext(_)
offAll_SkipsNext(set) ==
  IF set = << >> THEN << >>
  ELSE IF Len(set) = 1 THEN << >>
  ELSE <<set[2]>> \o offAll_SkipsNext(SubSeq(set, 3, Len(set)))

\* this.events[eventName].forEach((handler) => this.off(eventName, handler))
RECURSIVE offAll(_)
offAll(set) ==
  IF set = << >> THEN << >> ELSE offAll(SetDelete(set, Head(set)))

NoCall ==
  [op |-> "none", ev |-> None, h |-> None, ran |-> << >>, raised |-> 0,
   before |-> << >>, did |-> << >>, cut |-> FALSE]

Call(op, ev, h, ran, raised) ==
  [NoCall EXCEPT !.op = op, !.ev = ev, !.h = h, !.ran = ran, !.raised = raised]

\* The variables of the Token Manager and of the HttpClient.
others == <<store, now, options, registered, isRefreshing, refreshPromise,
            attempts, published, callers, turn, inTurn, ignoreTokenPatterns,
            requests>>

\* bus.on(ev, h)
On(ev, h) ==
  /\ events' = on(events, ev, Plain(h))
  /\ lastCall' = Call("on", ev, h, << >>, 0)
  /\ UNCHANGED <<wrappers, runs>>
  /\ UNCHANGED others

\* bus.off(ev, h)
Off(ev, h) ==
  /\ events' = off(events, ev, Plain(h))
  /\ lastCall' = Call("off", ev, h, << >>, 0)
  /\ UNCHANGED <<wrappers, runs>>
  /\ UNCHANGED others

\* bus.once(ev, h): a new onceHandler closure is subscribed; max bounds the
\* number of closures created in one behaviour.
OnceWithin(ev, h, max) ==
  /\ wrappers < max
  /\ wrappers' = wrappers + 1
  /\ runs' = Append(runs, 0)
  /\ events' = on(events, ev, [h |-> h, w |-> wrappers + 1])
  /\ lastCall' = Call("once", ev, h, << >>, 0)
  /\ UNCHANGED others

Once(ev, h) == OnceWithin(ev, h, MaxWrappers)

\* bus.emit(ev): the handlers are user code, each returns or raises.
Publish(ev) ==
  /\ \E r \in 0..Len(events[ev]) :
       LET f == forEachHandler(events, ev, events[ev], << >>, r)
       IN /\ events' = f.events
          /\ runs' = [w \in 1..Len(runs) |->
                        IF \E h \in Handlers : Has(f.ran, [h |-> h, w |-> w])
                          THEN runs[w] + 1 ELSE runs[w]]
          /\ lastCall' = Call("emit", ev, None, f.ran, f.raised)
  /\ UNCHANGED wrappers
  /\ UNCHANGED others

\* bus.destroy()
Teardown ==
  /\ events' = [e \in EventBusNames |-> offAll(events[e])]
  /\ lastCall' = Call("destroy", None, None, << >>, 0)
  /\ UNCHANGED <<wrappers, runs>>
  /\ UNCHANGED others

\* A Set under iteration: delete() leaves a hole at the element's position
\* and add() appends, so that the running forEach passes over elements
\* deleted before their turn and reaches elements added behind it.
Hole == [h |-> "hole", w |-> 0]

Punch(list, x) == [i \in 1..Len(list) |-> IF list[i] = x THEN Hole ELSE list[i]]

Live(list) == SelectSeq(list, LAMBDA y : y # Hole)

\* What a handler does with the bus while it runs: nothing, off(ev, g),
\* on(ev, g), or off(ev, g) followed by on(ev, g), for a handler g.
HandlerOps ==
  {<<"return", None>>} \cup ({"off", "on", "offon"} \X Handlers)

DoOp(list, op) ==
  CASE op[1] = "return" -> list
    [] op[1] = "off"    -> Punch(list, Plain(op[2]))
    [] op[1] = "on"     -> SetAdd(list, Plain(op[2]))
    [] op[1] = "offon"  -> SetAdd(Punch(list, Plain(op[2])), Plain(op[2]))

\* this.getEvents(eventName).forEach((handler) => handler(...args)) with
\* handlers that change the set they are called from: list = the entries of
\* the Set, i = the index of forEach, ran = the elements called so far,
\* body[h] = what handler h does when it is called. A onceHandler first
\* unsubscribes itself. cut: the loop had elements left after MaxInvocations
\* calls.
RECURSIVE forEachLive(_, _, _, _)
forEachLive(list, i, ran, body) ==
  IF i > Len(list) THEN [list |-> list, ran |-> ran, cut |-> FALSE]
  ELSE IF list[i] = Hole THEN forEachLive(list, i + 1, ran, body)
  ELSE IF Len(ran) = MaxInvocations THEN [list |-> list, ran |-> ran, cut |-> TRUE]
  ELSE LET x == list[i]
           l1 == IF x.w # 0 THEN Punch(list, x) ELSE list
           l2 == DoOp(l1, body[x.h])
       IN forEachLive(l2, i + 1, Append(ran, x), body)

\* bus.emit(ev) with handlers that subscribe and unsubscribe handlers of ev.
PublishLive(ev) ==
  /\ \E body \in [Handlers -> HandlerOps] :
       LET f == forEachLive(events[ev], 1, << >>, body)
       IN /\ events' = [events EXCEPT ![ev] = Live(f.list)]
          /\ runs' = [w \in 1..Len(runs) |->
                        IF \E h \in Handlers : Has(f.ran, [h |-> h, w |-> w])
                          THEN runs[w] + 1 ELSE runs[w]]
          /\ lastCall' = [NoCall EXCEPT !.op = "emit", !.ev = ev, !.ran = f.ran,
                                        !.before = events[ev],
                                        !.did = [j \in 1..Len(f.ran) |->
                                                   body[f.ran[j].h]],
                                        !.cut = f.cut]
  /\ UNCHANGED wrappers
  /\ UNCHANGED others

\* ------------------------------------------------------------ specification
\* No standalone bus is in use and no request has been made.
NoAux ==
  /\ events = [e \in EventBusNames |-> << >>]
  /\ wrappers = 0
  /\ runs = << >>
  /\ lastCall = NoCall
  /\ ignoreTokenPatterns = << >>
  /\ requests = [c \in Callers |-> NoRequest]

\* The options of the constructor: no lifecycle callback supplied, or all five.
Options(m) ==
  [onTokenInvalid |-> m, onRefreshTokenStart |-> m, onRefreshTokenSuccess |-> m,
   onRefreshTokenError |-> m, onRefreshTokenExpired |-> m,
   expiryThreshold |-> NotSupplied,
   getAccessToken |-> Unset, getRefreshToken |-> Unset,
   isAccessTokenExpired |-> Unset, isRefreshTokenExpired |-> Unset]

InitOptions == {Options(m) : m \in Modes}

\* Date.now() during the behaviour: with the tokens of jwtDecode and the
\* default threshold, the stored access token is valid at the first instant
\* and judged expired at the second, the stored refresh token at the third.
Clock == {0, DefaultExpiryThreshold, 2 * DefaultExpiryThreshold}

\* localStorage at construction: a stored pair, or a refresh token only.
InitStores ==
  [access : {"A1", None}, refresh : {"R1"}, other : {TRUE}]

Init ==
  /\ store \in InitStores
  /\ now \in Clock
  /\ options \in InitOptions
  /\ registered = TRUE
  /\ isRefreshing = FALSE
  /\ refreshPromise = 0
  /\ attempts = << >>
  /\ published = << >>
  /\ callers = [c \in Callers |-> NoCaller]
  /\ turn = 0
  /\ inTurn = FALSE
  /\ NoAux

Next ==
  \/ \E c \in Callers : CallRefresh(c)
  \/ \E c \in Callers : CallGetToken(c)
  \/ \E c \in Callers : ObserveRefresh(c)
  \/ \E c \in Callers : ResumeGetToken(c)
  \/ \E k \in 1..Len(attempts) : ExecResolves(k)
  \/ \E k \in 1..Len(attempts) : ExecRejects(k)
  \/ Destroy

Spec == Init /\ [][Next]_vars

\* The same program started on a store whose tokens may be missing or not
\* decodable.
TokenStores ==
  [access : {"A1", "X", None}, refresh : {"R1", "X", None}, other : {TRUE}]

InitTokens ==
  /\ store \in TokenStores
  /\ now \in Clock
  /\ options \in InitOptions
  /\ registered = TRUE
  /\ isRefreshing = FALSE
  /\ refreshPromise = 0
  /\ attempts = << >>
  /\ published = << >>
  /\ callers = [c \in Callers |-> NoCaller]
  /\ turn = 0
  /\ inTurn = FALSE
  /\ NoAux

SpecTokens == InitTokens /\ [][Next]_vars

\* The default predicate over its inputs: the stored access token carries an
\* exp claim, the claim 0 or none; options.expiryThreshold is not supplied, or
\* zero, or one second; Date.now() is one millisecond before, at, or one
\* millisecond after the instant exp * 1000 - expiryThreshold of token "A1".
Thresholds == {0, MsPerSecond}

Around(t) == {t - 1, t, t + 1}

ExpiryClock ==
  UNION {Around(jwtDecode("A1").exp * MsPerSecond - d) :
           d \in Thresholds \cup {DefaultExpiryThreshold}}

ExpiryStores == [access : {"A1", "E", "Z"}, refresh : {"R1"}, other : {TRUE}]

InitExpiry ==
  /\ store \in ExpiryStores
  /\ now \in ExpiryClock
  /\ options \in {[Options("default") EXCEPT !.expiryThreshold = d] :
                     d \in {NotSupplied} \cup {Supplied(t) : t \in Thresholds}}
  /\ registered = TRUE
  /\ isRefreshing = FALSE
  /\ refreshPromise = 0
  /\ attempts = << >>
  /\ published = << >>
  /\ callers = [c \in Callers |-> NoCaller]
  /\ turn = 0
  /\ inTurn = FALSE
  /\ NoAux

SpecExpiry == InitExpiry /\ [][Next]_vars

\* The options of the constructor with each of the five lifecycle callbacks
\* supplied or not, independently of the others.
ReactionOptions ==
  [onTokenInvalid : Modes, onRefreshTokenStart : Modes,
   onRefreshTokenSuccess : Modes, onRefreshTokenError : Modes,
   onRefreshTokenExpired : Modes, expiryThreshold : {NotSupplied},
   getAccessToken : {Unset}, getRefreshToken : {Unset},
   isAccessTokenExpired : {Unset}, isRefreshTokenExpired : {Unset}]

\* Store and clock at construction: the access token expired and the refresh
\* token valid, both expired, or no access token.
ReactionStarts ==
  {[store |-> [access |-> "A1", refresh |-> "R1", other |-> TRUE],
    now |-> DefaultExpiryThreshold],
   [store |-> [access |-> "A1", refresh |-> "R1", other |-> TRUE],
    now |-> 2 * DefaultExpiryThreshold],
   [store |-> [access |-> None, refresh |-> "R1", other |-> TRUE],
    now |-> DefaultExpiryThreshold]}

InitReactions ==
  /\ \E i \in ReactionStarts : store = i.store /\ now = i.now
  /\ options \in ReactionOptions
  /\ registered = TRUE
  /\ isRefreshing = FALSE
  /\ refreshPromise = 0
  /\ attempts = << >>
  /\ published = << >>
  /\ callers = [c \in Callers |-> NoCaller]
  /\ turn = 0
  /\ inTurn = FALSE
  /\ NoAux

\* The Token Manager as the HttpClient drives it: every request passes through
\* getToken() in the request interceptor, and destroy() tears it down.
NextClient ==
  \/ \E c \in Callers : CallGetToken(c)
  \/ \E c \in Callers : ResumeGetToken(c)
  \/ \E k \in 1..Len(attempts) : ExecResolves(k)
  \/ \E k \in 1..Len(attempts) : ExecRejects(k)
  \/ Destroy

SpecReactions == InitReactions /\ [][NextClient]_vars

\* The Token Accessor with its pluggable sources: each getter is not supplied,
\* or supplied and returning a token or the empty string (as the getter
\* `() => sessionStorage.getItem(..) ?? ''` does on an empty source).
AccessorOptions ==
  {[Options(m) EXCEPT !.getAccessToken = a, !.getRefreshToken = r] :
     m \in Modes, a \in {Unset, "A1", None}, r \in {Unset, "R1", None}}

AccessorStores == [access : {"A1", None}, refresh : {"R1", None}, other : {TRUE}]

InitAccessors ==
  /\ store \in AccessorStores
  /\ now = DefaultExpiryThreshold
  /\ options \in AccessorOptions
  /\ registered = TRUE
  /\ isRefreshing = FALSE
  /\ refreshPromise = 0
  /\ attempts = << >>
  /\ published = << >>
  /\ callers = [c \in Callers |-> NoCaller]
  /\ turn = 0
  /\ inTurn = FALSE
  /\ NoAux

NextAccessors ==
  \/ \E c \in Callers : CallGetAccessToken(c)
  \/ \E c \in Callers : CallGetRefreshToken(c)
  \/ \E c \in Callers : CallGetToken(c)
  \/ \E c \in Callers : ResumeGetToken(c)
  \/ \E k \in 1..Len(attempts) : ExecResolves(k)
  \/ \E k \in 1..Len(attempts) : ExecRejects(k)

SpecAccessors == InitAccessors /\ [][NextAccessors]_vars

\* A bus of its own, with no Token Manager call and no request.
InitBus ==
  /\ store = [access |-> "A1", refresh |-> "R1", other |-> TRUE]
  /\ now = 0
  /\ options = Options("default")
  /\ registered = TRUE
  /\ isRefreshing = FALSE
  /\ refreshPromise = 0
  /\ attempts = << >>
  /\ published = << >>
  /\ callers = [c \in Callers |-> NoCaller]
  /\ turn = 0
  /\ inTurn = FALSE
  /\ NoAux

NextBus ==
  \/ \E ev \in EventBusNames, h \in Handlers : On(ev, h)
  \/ \E ev \in EventBusNames, h \in Handlers : Off(ev, h)
  \/ \E ev \in EventBusNames, h \in Handlers : Once(ev, h)
  \/ \E ev \in EventBusNames : Publish(ev)
  \/ Teardown

SpecBus == InitBus /\ [][NextBus]_vars

\* The bus with handlers that subscribe and unsubscribe during a publish of
\* the event they are subscribed to; one event name is in use.
LiveBusNames == {"e1"}

NextLiveBus ==
  \/ \E ev \in LiveBusNames, h \in Handlers : On(ev, h)
  \/ \E ev \in LiveBusNames, h \in Handlers : Once(ev, h)
  \/ \E ev \in LiveBusNames : PublishLive(ev)

SpecLiveBus == InitBus /\ [][NextLiveBus]_vars

\* The bus with one event name and more than one once-registration.
NextOnce ==
  \/ \E ev \in LiveBusNames, h \in Handlers : On(ev, h)
  \/ \E ev \in LiveBusNames, h \in Handlers : Off(ev, h)
  \/ \E ev \in LiveBusNames, h \in Handlers : OnceWithin(ev, h, MaxOnce)
  \/ \E ev \in LiveBusNames : Publish(ev)
  \/ Teardown

SpecOnce == InitBus /\ [][NextOnce]_vars

\* The HttpClient: ignoreTokenPatterns not supplied, or the pattern of the
\* README without and with the g flag; the Token Manager on the default
\* sources, or on a getter that yields the empty string together with a
\* predicate of the application that judges every token valid.
HttpPatterns == {<< >>, <<RegExpOf(FALSE)>>, <<RegExpOf(TRUE)>>}

HttpOptions ==
  {Options("default"),
   [Options("default") EXCEPT !.getAccessToken = None,
                              !.isAccessTokenExpired = "valid"]}

InitHttp ==
  /\ store = [access |-> "A1", refresh |-> "R1", other |-> TRUE]
  /\ now \in {0, DefaultExpiryThreshold}
  /\ options \in HttpOptions
  /\ registered = TRUE
  /\ isRefreshing = FALSE
  /\ refreshPromise = 0
  /\ attempts = << >>
  /\ published = << >>
  /\ callers = [c \in Callers |-> NoCaller]
  /\ turn = 0
  /\ inTurn = FALSE
  /\ events = [e \in EventBusNames |-> << >>]
  /\ wrappers = 0
  /\ runs = << >>
  /\ lastCall = NoCall
  /\ ignoreTokenPatterns \in HttpPatterns
  /\ requests = [c \in Callers |-> NoRequest]

NextHttp ==
  \/ \E c \in Callers, url \in Urls : Request(c, url)
  \/ \E c \in Callers : RequestResumes(c)
  \/ \E c \in Callers : ResumeGetToken(c)
  \/ \E k \in 1..Len(attempts) : ExecResolves(k)
  \/ \E k \in 1..Len(attempts) : ExecRejects(k)

SpecHttp == InitHttp /\ [][NextHttp]_vars

\* The Token Manager under the scheduling of the JavaScript job queue: the
\* continuation of a caller suspended on a settled promise is always run.
\* Whether and when executeRefreshToken settles is up to the application.
InitLive ==
  /\ store = [access |-> "A1", refresh |-> "R1", other |-> TRUE]
  /\ now = DefaultExpiryThreshold
  /\ options \in InitOptions
  /\ registered = TRUE
  /\ isRefreshing = FALSE
  /\ refreshPromise = 0
  /\ attempts = << >>
  /\ published = << >>
  /\ callers = [c \in Callers |-> NoCaller]
  /\ turn = 0
  /\ inTurn = FALSE
  /\ NoAux

Fairness ==
  \A c \in Callers :
    WF_vars(ObserveRefresh(c)) /\ WF_vars(ResumeGetToken(c))

\* The calls of the Token Manager and the settling of executeRefreshToken.
NextLive ==
  \/ \E c \in Callers : CallRefresh(c)
  \/ \E c \in Callers : CallGetToken(c)
  \/ \E c \in Callers : ObserveRefresh(c)
  \/ \E c \in Callers : ResumeGetToken(c)
  \/ \E k \in 1..Len(attempts) : ExecResolves(k)
  \/ \E k \in 1..Len(attempts) : ExecRejects(k)

SpecLive == InitLive /\ [][NextLive]_vars /\ Fairness

\* ================================================================== claims
\* Helpers of the formulas.
Attempts == 1..Len(attempts)

\* The events attempt k published, in order.
IsOf(k, e) == e.att = k
EventsOf(k) ==
  LET es == SelectSeq(published, LAMBDA e : IsOf(k, e))
  IN [i \in 1..Len(es) |-> es[i].ev]

Complete(v) == v.accessToken # None /\ v.refreshToken # None

\* The default predicate judges the stored refresh token expired / valid now.
StoredRefreshExpired ==
  /\ store.refresh # None
  /\ jwtDecode(store.refresh).ok
  /\ jwtDecode(store.refresh).hasExp
  /\ jwtDecode(store.refresh).exp * MsPerSecond < now + expiryThreshold

StoredRefreshValid ==
  /\ store.refresh # None
  /\ jwtDecode(store.refresh).ok
  /\ ~StoredRefreshExpired

\* This step is caller c's call, and the call reaches refreshTokenIfNecessary.
CoordinatorCall(c) ==
  /\ callers[c].pc = "idle"
  /\ callers'[c].pc # "idle"
  /\ callers'[c].how \in {"joined", "thrown", "started"}

\* The callers that called in synchronous turn t, and the first of them.
TurnOf(t) == {c \in Callers : callers[c].turn = t}
FirstOf(G) == CHOOSE c \in G : \A d \in G : c <= d

SameOutcome(c, d) ==
  /\ callers[c].st = callers[d].st
  /\ callers[c].val = callers[d].val
  /\ callers[c].src = callers[d].src

\* The attempts opened by the callers of G that invoked executeRefreshToken.
InvokedBy(G) ==
  {k \in Attempts : attempts[k].exec # "none" /\ \E c \in G : callers[c].att = k}

\* C1: N >= 2 calls of refreshTokenIfNecessary made in one turn, the first of
\* them finding no refresh active and a refresh token that is not expired (it
\* opens a session), invoke executeRefreshToken exactly once and all settle
\* with the identical outcome.
C1_SingleFlight ==
  \A t \in 1..turn :
    LET G == TurnOf(t)
    IN (/\ Cardinality(G) >= 2
        /\ \A c \in G : callers[c].kind = "refresh" /\ callers[c].pc = "done"
        /\ callers[FirstOf(G)].att # 0)
       => /\ Cardinality(InvokedBy(G)) = 1
          /\ \A c, d \in G : SameOutcome(c, d)

\* C2: at most one Refresh Session exists, and at most one executeRefreshToken
\* invocation is in flight, in every reachable state.
C2_AtMostOneSession ==
  /\ Cardinality({k \in Attempts : attempts[k].exec = "inflight"}) <= 1
  /\ Cardinality({k \in Attempts : attempts[k].promise = "pending"}) <= 1

\* C2 witness: a refresh is in flight and every caller has called.
C2_Witness ==
  /\ \E k \in Attempts : attempts[k].exec = "inflight"
  /\ \A c \in Callers : callers[c].pc # "idle"

\* C3: a caller that arrived while the coordinator was Refreshing gets the
\* outcome of the caller that opened that session, and does not settle before
\* the attempt of that session has settled.
C3_JoinersShareOutcome ==
  \A c \in Callers :
    (callers[c].how = "joined" /\ callers[c].pc = "done")
    => /\ attempts[callers[c].open].promise \in {"fulfilled", "rejected"}
       /\ \A i \in Callers :
            (callers[i].att = callers[c].open /\ callers[i].pc = "done"
             /\ callers[i].kind = callers[c].kind)
            => (callers[i].st = callers[c].st /\ callers[i].val = callers[c].val)

\* C4: the getToken calls of one turn that all find the access token expired,
\* with the default handlers in place and a refresh that succeeds while
\* nothing else is published, invoke executeRefreshToken exactly once and all
\* resolve to the access token of the new pair.
C4_ConcurrentGetToken ==
  \A t \in 1..turn :
    LET G == TurnOf(t)
        k == callers[FirstOf(G)].att
    IN (/\ \A c \in G : callers[c].kind = "getToken" /\ callers[c].judged # None
                        /\ callers[c].pc = "done"
        /\ k # 0
        /\ attempts[k].promise = "fulfilled"
        /\ \A i \in 1..Len(published) :
             published[i].att = k /\ published[i].ran = "default")
       => /\ InvokedBy(G) = {k}
          /\ \A c \in G : /\ callers[c].st = "fulfilled"
                          /\ callers[c].val = attempts[k].value.accessToken

\* C4 witness: two getToken calls of one turn resolved after one refresh.
C4_Witness ==
  /\ turn = 1
  /\ \A c \in Callers : /\ callers[c].kind = "getToken"
                        /\ callers[c].turn = 1
                        /\ callers[c].judged = "A1"
                        /\ callers[c].st = "fulfilled"
  /\ Len(attempts) = 1
  /\ Len(published) = 2
  /\ published[2].ran = "default"

\* C5: once a refresh attempt has settled and no later one is open, the
\* in-progress flag is false and the shared pending result is null.
C5_SessionDestroyed ==
  (Len(attempts) >= 1
   /\ attempts[Len(attempts)].promise \in {"fulfilled", "rejected"})
  => (~isRefreshing /\ refreshPromise = 0)

\* The last attempt opened has settled.
LastSettled ==
  /\ Len(attempts) >= 1
  /\ attempts[Len(attempts)].promise \in {"fulfilled", "rejected"}

\* The step opens a new attempt that invokes executeRefreshToken.
NewInvocation ==
  /\ Len(attempts') = Len(attempts) + 1
  /\ attempts'[Len(attempts')].exec = "inflight"

\* A refreshToken:start handler raised in this step.
StartRaised ==
  \E i \in (Len(published) + 1)..Len(published') :
    published'[i].ev = "refreshToken:start" /\ published'[i].ran = "raised"

C7_SuccessEvents ==
  \A k \in Attempts :
    (attempts[k].exec = "resolved" /\ Complete(attempts[k].value))
    => EventsOf(k) = <<"refreshToken:start", "refreshToken:success">>

\* C8: an attempt whose executeRefreshToken rejected, or resolved with an
\* incomplete pair, published exactly refreshToken:start then
\* refreshToken:error.
C8_FailureEvents ==
  \A k \in Attempts :
    (\/ attempts[k].exec = "rejected"
     \/ attempts[k].exec = "resolved" /\ ~Complete(attempts[k].value))
    => EventsOf(k) = <<"refreshToken:start", "refreshToken:error">>

\* C9: a call of refreshTokenIfNecessary that finds the coordinator Idle and
\* the refresh token judged expired publishes refreshToken:expired and
\* nothing else, rejects, invokes nothing and leaves the coordinator Idle.
C9_ExpiredRefreshToken ==
  [][\A c \in Callers :
       (CoordinatorCall(c) /\ ~isRefreshing /\ StoredRefreshExpired)
       => /\ Len(published') = Len(published) + 1
          /\ published'[Len(published')].ev = "refreshToken:expired"
          /\ callers'[c].pc = "done"
          /\ callers'[c].st = "rejected"
          /\ attempts' = attempts
          /\ ~isRefreshing'
          /\ refreshPromise' = refreshPromise]_vars

\* C9 witness: a call judged the refresh token expired and was rejected.
C9_Witness ==
  \E c \in Callers :
    /\ callers[c].expired
    /\ callers[c].st = "rejected"
    /\ Len(published) >= 1
    /\ published[Len(published)].ev = "refreshToken:expired"

\* C10: every settled attempt published its terminal event
\* (refreshToken:success or refreshToken:error) exactly once.
IsTerminal(k, e) ==
  e.att = k /\ e.ev \in {"refreshToken:success", "refreshToken:error"}
C10_TerminalOnce ==
  \A k \in Attempts :
    attempts[k].promise \in {"fulfilled", "rejected"}
    => Len(SelectSeq(published, LAMBDA e : IsTerminal(k, e))) = 1

\* C11: in every attempt that invoked executeRefreshToken, refreshToken:start
\* was published before the invocation, and refreshToken:success /
\* refreshToken:error only once the invocation had settled.
C11_StartBeforeTerminalAfter ==
  \A k \in Attempts :
    attempts[k].exec # "none"
    => /\ \E i \in 1..attempts[k].invokedAt :
            published[i].att = k /\ published[i].ev = "refreshToken:start"
       /\ \A i \in 1..Len(published) :
            IsTerminal(k, published[i])
            => /\ attempts[k].exec \in {"resolved", "rejected"}
               /\ i > attempts[k].settledAt
               /\ attempts[k].settledAt >= attempts[k].invokedAt

\* C11 witness: an attempt invoked executeRefreshToken, the invocation
\* settled and the terminal event was published.
C11_Witness ==
  \E k \in Attempts :
    /\ attempts[k].exec \in {"resolved", "rejected"}
    /\ \E i \in 1..Len(published) : IsTerminal(k, published[i])

\* This step settles attempt k with a resolved value that omits a half.
MalformedSettles(k) ==
  /\ attempts[k].exec = "inflight"
  /\ attempts'[k].exec = "resolved"
  /\ ~Complete(attempts'[k].value)

\* The events published by this step.
NewEvents == {published'[i] : i \in (Len(published) + 1)..Len(published')}

\* This step settles caller c, which was suspended on attempt k.
WaiterSettles(c, k) ==
  /\ callers[c].pc \in {"awaitRefresh", "awaitGet"}
  /\ callers[c].waitOn = k
  /\ callers'[c].pc = "done"

\* C12: when executeRefreshToken resolves with a value that omits a half, the
\* attempt publishes refreshToken:error and never refreshToken:success, the
\* store is not written with the new value, the coordinator returns to Idle,
\* and the initiator and every joined waiter are rejected.
C12_MalformedResult ==
  [][/\ \A k \in Attempts :
          MalformedSettles(k)
          => /\ attempts'[k].promise = "rejected"
             /\ NewEvents # {}
             /\ \A e \in NewEvents : e.ev = "refreshToken:error" /\ e.att = k
             /\ store' \in {store, localStorageClear(store)}
             /\ ~isRefreshing'
             /\ refreshPromise' = 0
     /\ \A c \in Callers : \A k \in Attempts :
          (/\ WaiterSettles(c, k)
           /\ attempts[k].exec = "resolved"
           /\ ~Complete(attempts[k].value))
          => /\ callers'[c].st = "rejected"
             /\ callers'[c].val = attempts[k].err]_vars

\* C12 witness: an attempt settled with a malformed value and two callers that
\* waited on it were rejected.
C12_Witness ==
  \E k \in Attempts :
    /\ attempts[k].exec = "resolved"
    /\ ~Complete(attempts[k].value)
    /\ \A c \in Callers : /\ callers[c].src = k
                          /\ callers[c].st = "rejected"
    /\ \E c \in Callers : callers[c].how = "joined"

\* The only events published so far are those of attempt k, and each was
\* handled by the default handler.
OnlyDefaultEventsOf(k) ==
  \A i \in 1..Len(published) :
    published[i].att = k /\ published[i].ran = "default"

\* C13: with the default handlers and the default store, a getToken call that
\* finds the access token expired and the refresh token valid, and whose
\* executeRefreshToken resolves with the pair {A2, R2}, resolves to A2, and
\* the store then holds A2 and R2 in the two token slots.
C13_RefreshScenario ==
  \A c \in Callers :
    LET k == callers[c].att
    IN (/\ callers[c].kind = "getToken"
        /\ callers[c].judged # None
        /\ callers[c].how = "started"
        /\ callers[c].pc = "done"
        /\ attempts[k].exec = "resolved"
        /\ attempts[k].value = [accessToken |-> "A2", refreshToken |-> "R2"]
        /\ OnlyDefaultEventsOf(k))
       => /\ callers[c].st = "fulfilled"
          /\ callers[c].val = "A2"
          /\ store.access = "A2"
          /\ store.refresh = "R2"

\* C13 witness: the scenario has run to the end.
C13_Witness ==
  \E c \in Callers :
    /\ callers[c].kind = "getToken"
    /\ callers[c].judged = "A1"
    /\ callers[c].how = "started"
    /\ callers[c].st = "fulfilled"
    /\ attempts[callers[c].att].value = [accessToken |-> "A2", refreshToken |-> "R2"]
    /\ OnlyDefaultEventsOf(callers[c].att)

\* The default predicate judges the stored access token not expired now.
StoredAccessValid ==
  /\ store.access # None
  /\ jwtDecode(store.access).ok
  /\ \/ ~jwtDecode(store.access).hasExp
     \/ jwtDecode(store.access).exp = 0
     \/ jwtDecode(store.access).exp * MsPerSecond >= now + expiryThreshold

\* This step is caller c's call of getToken.
GetTokenCall(c) ==
  /\ callers[c].pc = "idle"
  /\ callers'[c].kind = "getToken"

\* C14: when the access token is present and not expired, getToken returns it
\* at once: it does not suspend, invokes nothing, publishes nothing and
\* leaves the Refresh Session and the store unchanged, also while another
\* caller's refresh is in flight.
C14_ValidTokenImmediate ==
  [][\A c \in Callers :
       (GetTokenCall(c) /\ StoredAccessValid)
       => /\ callers'[c].pc = "done"
          /\ callers'[c].st = "fulfilled"
          /\ callers'[c].val = store.access
          /\ UNCHANGED <<store, published, isRefreshing, refreshPromise,
                         attempts>>]_vars

\* C14 witness: getToken returned a valid token while a refresh was in flight.
C14_Witness ==
  /\ \E c \in Callers : callers[c].how = "valid" /\ callers[c].st = "fulfilled"
  /\ \E k \in Attempts : attempts[k].exec = "inflight"
  /\ isRefreshing

\* C15: a getToken call that found the access token expired either rejects or
\* resolves with the access token of the newly obtained pair, never with the
\* token it judged expired.
C15_NoStaleToken ==
  \A c \in Callers :
    (/\ callers[c].kind = "getToken"
     /\ callers[c].judged # None
     /\ callers[c].pc = "done"
     /\ callers[c].st = "fulfilled")
    => /\ callers[c].val # callers[c].judged
       /\ callers[c].src # 0
       /\ callers[c].val = attempts[callers[c].src].value.accessToken

\* The configured source yields no usable token: absent, or not decodable by
\* the default predicate.
BadToken(t) == t = None \/ ~jwtDecode(t).ok

Published(ev) == \E i \in 1..Len(published) : published[i].ev = ev
PublishedBy(k, ev) ==
  \E i \in 1..Len(published) : published[i].ev = ev /\ published[i].att = k

\* Every failure so far has been surfaced: a failed attempt rejected its
\* promise after publishing refreshToken:error, every caller that waited on
\* it is rejected with its error, and every rejection of a caller is preceded
\* by the event of its kind.
FailuresSurfaced ==
  /\ \A k \in Attempts :
       (\/ attempts[k].exec = "rejected"
        \/ attempts[k].exec = "resolved" /\ ~Complete(attempts[k].value))
       => /\ attempts[k].promise = "rejected"
          /\ PublishedBy(k, "refreshToken:error")
  /\ \A c \in Callers :
       callers[c].pc = "done"
       => /\ (callers[c].src # 0 /\ attempts[callers[c].src].promise = "rejected")
             => /\ callers[c].st = "rejected"
                /\ callers[c].val = attempts[callers[c].src].err
          /\ (callers[c].st = "rejected"
              /\ callers[c].val \in {"NoAccessToken", "NoRefreshToken", "DecodeError"})
             => Published("token:invalid")
          /\ (callers[c].st = "rejected" /\ callers[c].val = "RefreshTokenExpired")
             => Published("refreshToken:expired")
          /\ (callers[c].st = "rejected"
              /\ callers[c].val \in {"ExecRejected", "InvalidTokenReturned"})
             => PublishedBy(callers[c].src, "refreshToken:error")

C16_WitnessDecode ==
  \E c \in Callers : callers[c].st = "rejected" /\ callers[c].val = "DecodeError"
JudgesDecoded(c) ==
  /\ GetTokenCall(c)
  /\ store.access # None
  /\ jwtDecode(store.access).ok
JudgedExpired(c) == callers'[c].how # "valid"

\* C17: for a token whose expiry claim is T (seconds, T * 1000 ms) and a
\* threshold D, isAccessTokenExpired() is true exactly when the current time
\* is at or after T - D, the boundary instant included.
C17_ThresholdCorrect ==
  [][\A c \in Callers :
       (JudgesDecoded(c) /\ jwtDecode(store.access).hasExp)
       => (JudgedExpired(c)
           <=> now >= jwtDecode(store.access).exp * MsPerSecond
                      - expiryThreshold)]_vars

\* C18: a decodable token without an expiry claim is judged not expired at
\* every current time and for every threshold: getToken returns it at once
\* and no refresh is started.
C18_NoExpiryNeverExpired ==
  [][\A c \in Callers :
       (JudgesDecoded(c) /\ ~jwtDecode(store.access).hasExp)
       => /\ ~JudgedExpired(c)
          /\ callers'[c].pc = "done"
          /\ callers'[c].st = "fulfilled"
          /\ callers'[c].val = store.access
          /\ UNCHANGED <<attempts, published, isRefreshing, refreshPromise, store>>]_vars

\* C18 witness: getToken returned a token without an expiry claim at an
\* instant at which a token with a claim is past its threshold.
C18_Witness ==
  \E c \in Callers :
    /\ callers[c].kind = "getToken"
    /\ callers[c].how = "valid"
    /\ callers[c].st = "fulfilled"
    /\ callers[c].val = "E"
    /\ now > jwtDecode("A1").exp * MsPerSecond

\* An override handler is supplied in the options for event ev.
OverrideSupplied(ev) ==
  CASE ev = "token:invalid"        -> options.onTokenInvalid = "override"
    [] ev = "refreshToken:start"   -> options.onRefreshTokenStart = "override"
    [] ev = "refreshToken:success" -> options.onRefreshTokenSuccess = "override"
    [] ev = "refreshToken:error"   -> options.onRefreshTokenError = "override"
    [] ev = "refreshToken:expired" -> options.onRefreshTokenExpired = "override"

\* The events published by this step, in order, and the store they leave when
\* each event without an override has its default reaction and each event
\* with an override has none.
NewEventsSeq == SubSeq(published', Len(published) + 1, Len(published'))

PayloadOf(e) == IF e.att = 0 THEN NoToken ELSE attempts'[e.att].value

RECURSIVE ReactAll(_, _)
ReactAll(st, es) ==
  IF es = << >> THEN st
  ELSE ReactAll(IF OverrideSupplied(Head(es).ev) THEN st
                ELSE DefaultReaction(Head(es).ev, st, PayloadOf(Head(es))),
                Tail(es))

\* C19: for each lifecycle event independently, while the handlers of the
\* Token Manager are installed: publishing an event with an override runs the
\* override and not the default (the store is not touched for that event),
\* and publishing an event without an override runs its default reaction.
C19_OverridePrecedence ==
  [][registered
     => /\ \A e \in NewEvents :
             IF OverrideSupplied(e.ev) THEN e.ran \in {"override", "raised"}
             ELSE e.ran = "default"
        /\ store' = ReactAll(store, NewEventsSeq)]_vars

\* C19 witness: under one configuration an event was handled by its override
\* and left the store alone while another event ran its default reaction.
C19_Witness ==
  /\ \E i \in 1..Len(published) :
       published[i].ev = "refreshToken:start" /\ published[i].ran = "override"
  /\ \E i \in 1..Len(published) :
       published[i].ev = "refreshToken:success" /\ published[i].ran = "default"
  /\ store.access = "A2"

ClearingEvents == {"token:invalid", "refreshToken:error", "refreshToken:expired"}

\* C20: while the handlers are installed and the event has no override, a
\* step that publishes token:invalid, refreshToken:error or
\* refreshToken:expired leaves neither token in the store, and a step that
\* publishes only refreshToken:start leaves the store unchanged.
C20_DefaultClears ==
  [][registered
     => /\ (\E e \in NewEvents : e.ev \in ClearingEvents /\ ~OverrideSupplied(e.ev))
           => store'.access = None /\ store'.refresh = None
        /\ (/\ NewEvents # {}
            /\ \A e \in NewEvents : e.ev = "refreshToken:start"
            /\ ~OverrideSupplied("refreshToken:start"))
           => store' = store]_vars

\* C20 witness: a default refreshToken:start left the stored pair in place,
\* and the default refreshToken:error that followed removed both tokens.
C20_Witness ==
  /\ \E i, j \in 1..Len(published) :
       /\ i < j
       /\ published[i].ev = "refreshToken:start" /\ published[i].ran = "default"
       /\ published[j].ev = "refreshToken:error" /\ published[j].ran = "default"
  /\ store.access = None
  /\ store.refresh = None

\* What the configured source of each token yields: the getter of the
\* options when one is supplied, otherwise the slot of the store.
SourceAccess ==
  IF options.getAccessToken # Unset THEN options.getAccessToken ELSE store.access
SourceRefresh ==
  IF options.getRefreshToken # Unset THEN options.getRefreshToken ELSE store.refresh

\* This step is caller c's direct call of the accessor named kind.
AccessorCall(c, kind) ==
  /\ callers[c].pc = "idle"
  /\ callers'[c].kind = kind
  /\ callers'[c].how = "direct"

\* C21: getAccessToken() and getRefreshToken() publish token:invalid and fail
\* whenever the configured source (the getter if supplied, else the store
\* slot) yields an absent or empty value, and never return an empty token.
C21_MissingTokenFails ==
  [][\A c \in Callers :
       /\ (AccessorCall(c, "getAccessToken") /\ SourceAccess = None)
          => /\ callers'[c].st = "rejected"
             /\ \E e \in NewEvents : e.ev = "token:invalid"
       /\ (AccessorCall(c, "getRefreshToken") /\ SourceRefresh = None)
          => /\ callers'[c].st = "rejected"
             /\ \E e \in NewEvents : e.ev = "token:invalid"
       /\ (AccessorCall(c, "getAccessToken") \/ AccessorCall(c, "getRefreshToken"))
          => ~(callers'[c].st = "fulfilled" /\ callers'[c].val = None)]_vars

\* A stored token that is present and does not decode.
Undecodable(t) == t # None /\ ~jwtDecode(t).ok

\* The step published token:invalid and rejected caller c at once; the error
\* is the decode error unless the token:invalid callback itself raised.
DecodeFailure(c) ==
  /\ Len(published') = Len(published) + 1
  /\ published'[Len(published')].ev = "token:invalid"
  /\ callers'[c].pc = "done"
  /\ callers'[c].st = "rejected"
  /\ callers'[c].val =
       IF published'[Len(published')].ran = "raised" THEN "HandlerError"
       ELSE "DecodeError"
  /\ attempts' = attempts
  /\ UNCHANGED <<isRefreshing, refreshPromise>>

PlainOf(set) == SelectSeq(set, LAMBDA x : x.w = 0)

NoDuplicate(set) ==
  \A i, j \in 1..Len(set) : set[i] = set[j] => i = j

\* C23: on() adds a handler at the end of the Set of its event unless the
\* same reference is already in it, in which case nothing changes; and a
\* publish in which no handler raises calls each handler subscribed with on()
\* exactly once, in the order of their registrations.
C23_Subscribe ==
  [][LET c == lastCall'
     IN /\ c.op = "on"
           => events' = [events EXCEPT ![c.ev] =
                           IF Has(@, Plain(c.h)) THEN @ ELSE Append(@, Plain(c.h))]
        /\ c.op = "off"
           => /\ ~Has(events'[c.ev], Plain(c.h))
              /\ \A e \in EventBusNames \ {c.ev} : events'[e] = events[e]
        /\ (c.op = "emit" /\ c.raised = 0)
           => /\ PlainOf(c.ran) = PlainOf(events[c.ev])
              /\ NoDuplicate(c.ran)
        /\ \A e \in EventBusNames : NoDuplicate(events'[e])]_vars

\* C23 witness: h1 was unsubscribed and subscribed again after h2, and a
\* publish called h2 and then h1.
C23_Witness ==
  /\ lastCall.op = "emit"
  /\ lastCall.raised = 0
  /\ lastCall.ran = <<Plain("h2"), Plain("h1")>>

\* The onceHandler closures in the Set of event ev, and those a publish
\* reaches: all of them, or those up to the call that raises.
OnceOf(ev) == {events[ev][i] : i \in {j \in 1..Len(events[ev]) : events[ev][j].w # 0}}
Reached(ev, r) ==
  {events[ev][i] :
     i \in {j \in 1..Len(events[ev]) :
              events[ev][j].w # 0 /\ (r = 0 \/ j <= r)}}

\* C24 as stated: every publish of its event calls each handler registered
\* with once() and still subscribed, and unsubscribes it; it runs at most once.
C24_FirstPublish ==
  [][lastCall'.op = "emit"
     => \A x \in OnceOf(lastCall'.ev) :
          /\ Has(lastCall'.ran, x)
          /\ ~Has(events'[lastCall'.ev], x)]_vars

\* C24 amended: a publish calls each once() handler it reaches (those not
\* preceded by a handler that raises) and unsubscribes it before the call;
\* the others stay subscribed and are not called; no once() handler runs
\* twice, and one that has run is subscribed nowhere.
C24_OnceAtMostOnce ==
  [][/\ lastCall'.op = "emit"
        => \A x \in OnceOf(lastCall'.ev) :
             IF x \in Reached(lastCall'.ev, lastCall'.raised)
               THEN /\ Has(lastCall'.ran, x)
                    /\ ~Has(events'[lastCall'.ev], x)
                    /\ runs'[x.w] = 1
               ELSE /\ ~Has(lastCall'.ran, x)
                    /\ Has(events'[lastCall'.ev], x)
                    /\ runs'[x.w] = 0
     /\ \A w \in 1..Len(runs') :
          /\ runs'[w] <= 1
          /\ runs'[w] = 1
             => \A e \in EventBusNames, h \in Handlers :
                  ~Has(events'[e], [h |-> h, w |-> w])]_vars

\* C24 witness: a once() handler was skipped by a publish that an earlier
\* handler cut short, ran in a later publish, and is gone.
C24_Witness ==
  /\ lastCall.op = "emit"
  /\ lastCall.raised = 0
  /\ Len(lastCall.ran) = 2
  /\ lastCall.ran[1].w = 0
  /\ lastCall.ran[2].w = 1
  /\ runs = <<1>>
  /\ events[lastCall.ev] = <<lastCall.ran[1]>>

\* C25 as stated: when a handler raises, the error leaves emit, the handlers
\* after it are not called, and the Sets of handlers are unchanged.
C25_RaiseLeavesSet ==
  [][(lastCall'.op = "emit" /\ lastCall'.raised # 0)
     => /\ lastCall'.ran = SubSeq(events[lastCall'.ev], 1, lastCall'.raised)
        /\ events' = events]_vars

\* C25 amended: when a handler raises, the error leaves emit, the handlers
\* after it are not called, and the Sets of handlers are unchanged except
\* that the once() handlers called in that publish are unsubscribed.
C25_RaisePropagates ==
  [][(lastCall'.op = "emit" /\ lastCall'.raised # 0)
     => /\ lastCall'.ran = SubSeq(events[lastCall'.ev], 1, lastCall'.raised)
        /\ events' = [events EXCEPT ![lastCall'.ev] =
                        SelectSeq(@, LAMBDA x : ~(x.w # 0 /\ Has(lastCall'.ran, x)))]]_vars

\* C25 witness: the first of two handlers raised, the second was not called
\* and both are still subscribed.
C25_Witness ==
  /\ lastCall.op = "emit"
  /\ lastCall.raised = 1
  /\ Len(lastCall.ran) = 1
  /\ Len(events[lastCall.ev]) = 2
  /\ events[lastCall.ev][1] = lastCall.ran[1]

\* C26: destroy() leaves no handler subscribed to any event, whether it was
\* subscribed with on() or once(), and a publish on an event without
\* handlers calls none.
C26_Teardown ==
  [][/\ lastCall'.op = "destroy"
        => \A e \in EventBusNames : events'[e] = << >>
     /\ (lastCall'.op = "emit" /\ events[lastCall'.ev] = << >>)
        => /\ lastCall'.ran = << >>
           /\ lastCall'.raised = 0
           /\ events' = events]_vars

\* C26 witness: a once() handler that never ran was removed by destroy().
C26_Witness ==
  /\ lastCall.op = "destroy"
  /\ runs = <<0>>
  /\ \A e \in EventBusNames : events[e] = << >>

\* The source /\/auth\/login/ of the configured patterns matches the URL.
MatchesIgnorePattern(url) == ignoreTokenPatterns # << >> /\ url = "/auth/login"

\* This step is the arrival of request c at the interceptor.
RequestArrives(c) == requests[c].st = "none" /\ requests'[c].st # "none"

\* C27: a request whose URL matches a configured ignore pattern is passed
\* through without a call of getToken(): no expiry check, no refresh, no
\* lifecycle event, no Authorization header, whatever the tokens are.
C27_IgnoredPassThrough ==
  [][\A c \in Callers :
       (RequestArrives(c) /\ MatchesIgnorePattern(requests'[c].url))
       => /\ requests'[c].st = "dispatched"
          /\ requests'[c].header = << >>
          /\ callers'[c].kind = "ignored"
          /\ UNCHANGED <<store, isRefreshing, refreshPromise, attempts,
                         published>>]_vars

\* C28: a request that matches no ignore pattern is rejected when getToken()
\* fails and is otherwise dispatched with Authorization = 'Bearer ' + the
\* token getToken() returned; none is dispatched without the header.
C28_BearerOrRejected ==
  \A c \in Callers :
    (requests[c].st # "none" /\ ~MatchesIgnorePattern(requests[c].url))
    => /\ requests[c].st = "dispatched"
          => /\ callers[c].st = "fulfilled"
             /\ requests[c].header = Bearer(callers[c].val)
             /\ callers[c].val # None
       /\ (callers[c].pc = "done" /\ callers[c].st = "rejected")
          => requests[c].st \in {"pending", "rejected"}

\* The callers suspended on, or settled from, the promise of attempt k.
WaitersOf(k) == {c \in Callers : callers[c].pc # "idle" /\ callers[c].waitOn = k}

ExecSettled(k) ==
  k \in Attempts /\ attempts[k].exec \in {"resolved", "rejected"}

\* While the invocation of attempt k is in flight the session of k is open
\* and every caller waiting on it is suspended.
StaysRefreshing ==
  \A k \in Attempts :
    attempts[k].exec = "inflight"
    => /\ isRefreshing
       /\ refreshPromise = k
       /\ attempts[k].promise = "pending"
       /\ \A c \in WaitersOf(k) : callers[c].pc \in {"awaitRefresh", "awaitGet"}

\* Once the invocation of attempt k has settled, the promise of k is settled
\* and the session of k is closed.
SettledClosesSession ==
  \A k \in Attempts :
    ExecSettled(k)
    => /\ attempts[k].promise \in {"fulfilled", "rejected"}
       /\ refreshPromise # k

\* C29: if the executeRefreshToken invocation settles, the session is closed
\* and the initiator and every joined caller eventually settle; while it has
\* not settled the coordinator stays Refreshing and every caller waiting on
\* it stays suspended.
C29_Liveness ==
  /\ [](StaysRefreshing /\ SettledClosesSession)
  /\ [][\A k \in Attempts :
          (attempts[k].exec = "inflight" /\ attempts'[k].exec # "inflight")
          => ~isRefreshing' /\ refreshPromise' = 0]_vars
  /\ \A k \in 1..MaxCallers :
       ExecSettled(k) ~> (\A c \in WaitersOf(k) : callers[c].pc = "done")

\* C29 witness: an invocation settled, the coordinator is Idle, and the
\* initiator and a caller that joined its session have both settled from it.
C29_Witness ==
  /\ ~isRefreshing
  /\ refreshPromise = 0
  /\ \E c, d \in Callers :
       /\ callers[c].how = "started" /\ callers[c].pc = "done"
       /\ callers[d].how = "joined" /\ callers[d].pc = "done"
       /\ callers[d].src = callers[c].att
       /\ callers[c].src = callers[c].att
       /\ ExecSettled(callers[c].att)

\* The store holds exactly the pair v in its two token slots.
HoldsPair(st, v) == st.access = v.accessToken /\ st.refresh = v.refreshToken

\* C30: with the default handlers and the default store, every synchronous
\* segment leaves the two token slots as they were, or empties both, or
\* fills both with the complete pair one executeRefreshToken call resolved
\* with in that segment; no segment changes one slot and keeps the other.
C30_WholesaleReplace ==
  [][options = Options("default")
     => \/ HoldsPair(store', [accessToken |-> store.access,
                              refreshToken |-> store.refresh])
        \/ HoldsPair(store', NoToken)
        \/ \E k \in Attempts :
             /\ attempts[k].exec = "inflight"
             /\ attempts'[k].exec = "resolved"
             /\ Complete(attempts'[k].value)
             /\ HoldsPair(store', attempts'[k].value)]_vars

\* C30 witness: with the default handlers a first refresh replaced the stored
\* pair and a second, failed one removed both halves of the new pair.
C30_Witness ==
  /\ options = Options("default")
  /\ Len(attempts) = 2
  /\ attempts[1].promise = "fulfilled"
  /\ attempts[2].promise = "rejected"
  /\ attempts[2].arg = [accessToken |-> "A2", refreshToken |-> "R2"]
  /\ HoldsPair(store, NoToken)

\* The safety margin the options ask for: the number supplied, zero included,
\* and sixty seconds when none is supplied.
SuppliedMargin ==
  IF options.expiryThreshold = NotSupplied
    THEN 60 * MsPerSecond
    ELSE options.expiryThreshold[1]

\* C31: the default predicate judges a token with an expiry claim by the
\* margin supplied at construction, whatever non-negative number it is, zero
\* included, and by a margin of sixty seconds when none was supplied.
C31_SuppliedMargin ==
  [][\A c \in Callers :
       (/\ JudgesDecoded(c)
        /\ jwtDecode(store.access).hasExp
        /\ jwtDecode(store.access).exp # 0)
       => (JudgedExpired(c)
           <=> jwtDecode(store.access).exp * MsPerSecond
               < now + SuppliedMargin)]_vars

\* C31 witness: with a margin of zero supplied, getToken returned the stored
\* token at an instant at which the margin of sixty seconds judges it expired.
C31_Witness ==
  \E c \in Callers :
    /\ options.expiryThreshold = Supplied(0)
    /\ callers[c].kind = "getToken"
    /\ callers[c].how = "valid"
    /\ callers[c].val = "A1"
    /\ jwtDecode("A1").exp * MsPerSecond < now + DefaultExpiryThreshold

\* C31 witness, no margin supplied: getToken judged the stored token expired
\* one millisecond past the instant sixty seconds before its expiry.
C31_WitnessDefault ==
  \E c \in Callers :
    /\ options.expiryThreshold = NotSupplied
    /\ callers[c].kind = "getToken"
    /\ callers[c].how = "started"
    /\ store.access = "A1"
    /\ now = jwtDecode("A1").exp * MsPerSecond - 60 * MsPerSecond + 1

\* C32: when a handler of refreshToken:start raises, the call that published
\* the event rejects and leaves the coordinator Idle (flag false, no pending
\* result), and no call joins a refresh that does not exist.
C32_StartFailureLeavesIdle ==
  [][\A c \in Callers :
       /\ (CoordinatorCall(c) /\ StartRaised)
          => /\ callers'[c].pc = "done"
             /\ callers'[c].st = "rejected"
             /\ ~isRefreshing'
             /\ refreshPromise' = 0
       /\ (CoordinatorCall(c) /\ callers'[c].how = "joined")
          => callers'[c].waitOn # 0]_vars

\* C33: in every state a task can observe, the in-progress flag is true
\* exactly when the shared pending result is non-null.
C33_GuardAndHandleTogether == isRefreshing <=> refreshPromise # 0

\* Caller c calls refreshTokenIfNecessary(), directly or from getToken().
ArrivesAtCoordinator(c) ==
  \/ CoordinatorCall(c)
  \/ callers[c].pc = "idle" /\ callers'[c].kind = "refresh"

\* C34: a call of refreshTokenIfNecessary() that finds the in-progress flag
\* set only joins: it gets the shared pending result, publishes no event,
\* invokes nothing, and leaves flag, pending result and store as they were.
C34_JoinOnly ==
  [][\A c \in Callers :
       (ArrivesAtCoordinator(c) /\ isRefreshing)
       => /\ callers'[c].how = "joined"
          /\ callers'[c].waitOn = refreshPromise
          /\ UNCHANGED <<store, published, attempts, isRefreshing,
                         refreshPromise>>]_vars

\* C34 witness: a direct call joined the only refresh, which is still in
\* flight and has published nothing but its start.
C34_Witness ==
  \E c \in Callers :
    /\ callers[c].kind = "refresh"
    /\ callers[c].how = "joined"
    /\ callers[c].waitOn = 1
    /\ Len(attempts) = 1
    /\ attempts[1].exec = "inflight"
    /\ Len(published) = 1
    /\ published[1].ev = "refreshToken:start"

\* C35: no attempt publishes both refreshToken:success and
\* refreshToken:error, and an attempt that published refreshToken:success
\* settles by resolving its callers, never by rejecting them.
C35_SuccessExcludesError ==
  \A k \in Attempts :
    PublishedBy(k, "refreshToken:success")
    => /\ ~PublishedBy(k, "refreshToken:error")
       /\ attempts[k].promise # "rejected"

\* Attempt k failed, by rejection or by a malformed result, and the default
\* handler of refreshToken:error ran for it.
FailedWithDefaults(k) ==
  /\ \/ attempts[k].exec = "rejected"
     \/ attempts[k].exec = "resolved" /\ ~Complete(attempts[k].value)
  /\ \E i \in 1..Len(published) :
       /\ published[i].att = k
       /\ published[i].ev = "refreshToken:error"
       /\ published[i].ran = "default"

\* This step is caller c's call of getToken() or refreshTokenIfNecessary().
TokenCall(c) ==
  /\ callers[c].pc = "idle"
  /\ callers'[c].kind \in {"getToken", "refresh"}

\* C36: with the default handlers and the default store, once a refresh has
\* failed the store holds neither token, and every later getToken() or
\* refreshTokenIfNecessary() rejects with the missing-token error, publishes
\* token:invalid and nothing else, and invokes no executeRefreshToken.
C36_FailureThenMissingToken ==
  [][(options = Options("default") /\ \E k \in Attempts : FailedWithDefaults(k))
     => /\ HoldsPair(store, NoToken)
        /\ \A c \in Callers :
             TokenCall(c)
             => /\ callers'[c].pc = "done"
                /\ callers'[c].st = "rejected"
                /\ callers'[c].val \in {"NoAccessToken", "NoRefreshToken"}
                /\ [i \in 1..Len(NewEventsSeq) |-> NewEventsSeq[i].ev]
                     = <<"token:invalid">>
                /\ attempts' = attempts]_vars

\* C36 witness: with the default handlers a refresh was rejected and a later
\* call was rejected for the missing token.
C36_Witness ==
  /\ options = Options("default")
  /\ \E k \in Attempts : attempts[k].exec = "rejected" /\ FailedWithDefaults(k)
  /\ \E c \in Callers :
       /\ callers[c].turn > 1
       /\ callers[c].st = "rejected"
       /\ callers[c].val \in {"NoAccessToken", "NoRefreshToken"}
       /\ published[Len(published)].ev = "token:invalid"

\* C36 witness, malformed result: the same after executeRefreshToken resolved
\* with an incomplete pair.
C36_WitnessMalformed ==
  /\ options = Options("default")
  /\ \E k \in Attempts : attempts[k].exec = "resolved" /\ FailedWithDefaults(k)
  /\ \E c \in Callers :
       /\ callers[c].turn > 1
       /\ callers[c].st = "rejected"
       /\ callers[c].val \in {"NoAccessToken", "NoRefreshToken"}
       /\ published[Len(published)].ev = "token:invalid"

\* C37: a default clearing reaction (token:invalid, refreshToken:error or
\* refreshToken:expired without an override) removes the two token slots only
\* and leaves every other entry of the persistent store as it was.
C37_ClearsOnlyTokenSlots ==
  [][(\E e \in NewEvents : e.ev \in ClearingEvents /\ e.ran = "default")
     => store'.other = store.other]_vars

\* The calls of element x in the last publish, and whether x was the target
\* of an off() made by a call before the first of them.
TurnsOf(x) == {j \in 1..Len(lastCall.ran) : lastCall.ran[j] = x}

OffBeforeTurn(x) ==
  /\ x.w = 0
  /\ \E j \in 1..Len(lastCall.did) :
       /\ lastCall.did[j][1] \in {"off", "offon"}
       /\ lastCall.did[j][2] = x.h
       /\ \A t \in TurnsOf(x) : j < t

\* C38: in one publish, with handlers that subscribe and unsubscribe
\* handlers of the same event, a handler registered when the publish began
\* and not unsubscribed before its turn is invoked exactly once, and one
\* unsubscribed before its turn is not invoked.
C38_EachHandlerOnce ==
  lastCall.op = "emit"
  => \A i \in 1..Len(lastCall.before) :
       LET x == lastCall.before[i]
       IN IF OffBeforeTurn(x)
            THEN TurnsOf(x) = {}
            ELSE /\ Cardinality(TurnsOf(x)) <= 1
                 /\ ~lastCall.cut => Cardinality(TurnsOf(x)) = 1

\* The once-registrations of handler h in a sequence of elements.
OnceRegs(set, h) == SelectSeq(set, LAMBDA x : x.w # 0 /\ x.h = h)

\* C39 as stated: off() with the handler leaves every once-registration in
\* place, and the next publish of the event calls every pending
\* once-registration, as many times as the handler was passed to once(), and
\* removes it: no publish but the first after once() finds it subscribed.
C39_NextPublishRemoves ==
  [][LET c == lastCall'
     IN /\ c.op = "off"
           => events'[c.ev] = SelectSeq(events[c.ev], LAMBDA x : x # Plain(c.h))
        /\ c.op = "emit"
           => \A h \in Handlers :
                /\ OnceRegs(c.ran, h) = OnceRegs(events[c.ev], h)
                /\ OnceRegs(events'[c.ev], h) = << >>]_vars

\* C39 (amended): a once-registration is its own element of the Set. once()
\* adds one at every call, also for a handler that has one pending; off()
\* with the handler leaves every once-registration in place; a publish in which no
\* handler raises calls every pending once-registration, so a handler passed
\* to once() twice is called twice; and a once-registration leaves the Set
\* only in a publish that calls it or in destroy().
C39_OnceIsItsOwnElement ==
  [][LET c == lastCall'
     IN /\ c.op = "once"
           => events'[c.ev] = Append(events[c.ev], [h |-> c.h, w |-> wrappers'])
        /\ c.op = "off"
           => events'[c.ev] = SelectSeq(events[c.ev], LAMBDA x : x # Plain(c.h))
        /\ (c.op = "emit" /\ c.raised = 0)
           => \A h \in Handlers :
                OnceRegs(c.ran, h) = OnceRegs(events[c.ev], h)
        /\ \A e \in EventBusNames : \A x \in OnceOf(e) :
             ~Has(events'[e], x)
             => \/ c.op = "destroy"
                \/ c.op = "emit" /\ c.ev = e /\ Has(c.ran, x)]_vars

\* C39 witness: one handler was passed to once() twice and the publish that
\* followed called it twice.
C39_Witness ==
  /\ lastCall.op = "emit"
  /\ lastCall.raised = 0
  /\ lastCall.ran = <<[h |-> "h1", w |-> 1], [h |-> "h1", w |-> 2]>>
  /\ events[lastCall.ev] = << >>

\* C39 witness, off(): off() with the handler was called while its
\* once-registration was pending, and the registration is still subscribed.
C39_WitnessOff ==
  /\ lastCall.op = "off"
  /\ lastCall.h = "h1"
  /\ events[lastCall.ev] = <<[h |-> "h1", w |-> 1]>>

====
